---------------------------- MODULE Spec2Model ----------------------------
(***************************************************************************)
(* Model of SQL-Joiner (src/src/main.rs): the four join cost functions,    *)
(* the table/column lookup of main and the method selector of main.        *)
(*                                                                         *)
(* Numbers.  The statistics and the memory size are u32.  TLC's integers   *)
(* stop at 2^31 - 1, so a u32 VALUE is kept as a pair <<hi, lo>> of 16-bit *)
(* halves (value = hi * 65536 + lo) and the u32 operators +, - and * are   *)
(* computed on pairs, exactly, modulo 2^32, together with the fact that    *)
(* the mathematical result did not fit.  What the program does on such an  *)
(* overflow depends on the build: with overflow checks (the debug profile) *)
(* the operator panics, without them (the release profile) the wrapped     *)
(* value is used.  The INPUTS (br, nr, total_values, memory_size) are      *)
(* plain naturals drawn from bounded sets.                                 *)
(*                                                                         *)
(* Floats.  The two f32 expressions of the source are ceil(log_b(x)) cast  *)
(* to u32; log_ceil_u32 computes them, including the IEEE special cases    *)
(* (ln 0 = -inf, division by ln 1 = 0, NaN) and Rust's saturating cast.    *)
(***************************************************************************)
EXTENDS Integers, Sequences, FiniteSets, TLC

VARIABLES
    pc,               \* position in main
    overflow_checks,  \* build profile: TRUE = arithmetic overflow panics
    memory_size,      \* main.rs:149
    data,             \* main.rs:157, the loaded schema (sequence of tables)
    names,            \* main.rs:172, the four names read from stdin
    table1, table2,   \* main.rs:178, Option<&Table>
    column1, column2, \* main.rs:179, Option<&Column>
    best_method,      \* main.rs:224
    best_cost,        \* main.rs:225
    diag,             \* the panic message, "" while none
    call              \* the cost-function call under test (CostSpec)

vars == <<pc, overflow_checks, memory_size, data, names, table1, table2,
          column1, column2, best_method, best_cost, diag, call>>

----------------------------------------------------------------------------
(* Bounds of the model.                                                    *)

MaxBr == 5
MaxMainBr == 4
MaxMem == 5
MaxTv == 6

----------------------------------------------------------------------------
(* Option<T>: None is the empty sequence, Some(x) the one-element one.     *)

None == <<>>
Some(x) == <<x>>
is_some(o) == o # <<>>
unwrap(o) == o[1]

----------------------------------------------------------------------------
(* u32 values and the u32 operators.                                       *)

Half == 65536
Byte == 256

U32(n) == <<n \div Half, n % Half>>

u32_MAX == <<Half - 1, Half - 1>>

u32_lt(x, y) == x[1] < y[1] \/ (x[1] = y[1] /\ x[2] < y[2])

cmp_min(x, y) == IF u32_lt(y, x) THEN y ELSE x

(* x + y: the wrapped sum and whether the true sum exceeds u32::MAX.       *)
u32_add(x, y) ==
    LET lo == x[2] + y[2]
        hi == x[1] + y[1] + (lo \div Half)
    IN  [val |-> <<hi % Half, lo % Half>>, ovf |-> hi >= Half]

(* x - y: the wrapped difference and whether y exceeds x.                   *)
u32_sub(x, y) ==
    LET lo == x[2] - y[2]
        hi == x[1] - y[1] - (IF lo < 0 THEN 1 ELSE 0)
    IN  [val |-> <<(hi + Half) % Half, (lo + Half) % Half>>, ovf |-> hi < 0]

(* x * y by long multiplication on the four bytes of each factor: the      *)
(* wrapped product and whether the true product exceeds u32::MAX.          *)
u32_bytes(x) == <<x[2] % Byte, x[2] \div Byte, x[1] % Byte, x[1] \div Byte>>

u32_mul(x, y) ==
    LET a == u32_bytes(x)
        b == u32_bytes(y)
        t0 == a[1] * b[1]
        t1 == a[1] * b[2] + a[2] * b[1] + (t0 \div Byte)
        t2 == a[1] * b[3] + a[2] * b[2] + a[3] * b[1] + (t1 \div Byte)
        t3 == a[1] * b[4] + a[2] * b[3] + a[3] * b[2] + a[4] * b[1]
              + (t2 \div Byte)
        high == a[2] * b[4] + a[3] * b[3] + a[4] * b[2]
                + a[3] * b[4] + a[4] * b[3] + a[4] * b[4]
    IN  [val |-> <<(t3 % Byte) * Byte + (t2 % Byte),
                   (t1 % Byte) * Byte + (t0 % Byte)>>,
         ovf |-> high > 0 \/ t3 >= Byte]

(* The result of evaluating a cost function: its value (for an Option      *)
(* result None or Some(value)), whether a u32 operator overflowed on the   *)
(* way (then a build with overflow checks panicked instead), and whether   *)
(* it divided by zero (a panic in every build).                            *)
Ret(v, o, z) == [val |-> v, ovf |-> o, div0 |-> z]

----------------------------------------------------------------------------
(* f32: ceil(ln(x) / ln(b)) as u32, for naturals x and b.                  *)

RECURSIVE ceil_log_from(_, _, _, _)
ceil_log_from(b, x, p, v) ==
    IF v >= x THEN p ELSE ceil_log_from(b, x, p + 1, v * b)

(* ln 0 = -inf and ln 1 = 0: x = 0 gives -inf or NaN, b = 0 gives -0.0 or  *)
(* NaN, x = 1 gives 0 or NaN, all of which cast to 0; b = 1 with x >= 2    *)
(* divides a positive number by 0.0, +inf, which casts to u32::MAX.        *)
(* Otherwise the value is the least p with b^p >= x: the f32 quotient of   *)
(* the two logarithms rounds to a whole number at every exact power that   *)
(* the arguments of this model produce.                                    *)
log_ceil_u32(x, b) ==
    IF x <= 1 \/ b = 0 THEN <<0, 0>>
    ELSE IF b = 1 THEN u32_MAX
    ELSE U32(ceil_log_from(b, x, 0, 1))

height_of_index_tree(n, k) == log_ceil_u32(k, n \div 2)

FanOut == 10

----------------------------------------------------------------------------
(* The cost functions.                                                     *)

cmp_min_nat(a, b) == IF b < a THEN b ELSE a

block_nested_join_cost(t1, t2, m) ==
    LET smaller == cmp_min_nat(t1.br, t2.br)
        sum == u32_add(U32(t1.br), U32(t2.br))
    IN  IF smaller < m
        THEN Ret(sum.val, sum.ovf, FALSE)
        ELSE LET rest == u32_sub(sum.val, U32(smaller))
                 more == u32_add(rest.val, U32(1))
                 prod == u32_mul(U32(smaller), more.val)
             IN  Ret(prod.val,
                     sum.ovf \/ rest.ovf \/ more.ovf \/ prod.ovf, FALSE)

(* One side of indexed_join_cost: other.nr * height + other.br.            *)
indexed_side_cost(column, other) ==
    LET lookup_cost == height_of_index_tree(FanOut, column.total_values)
        prod == u32_mul(U32(other.nr), lookup_cost)
        total == u32_add(prod.val, U32(other.br))
    IN  [val |-> total.val, ovf |-> prod.ovf \/ total.ovf]

(* cost starts as None; each indexed side folds its total into it.         *)
indexed_join_cost(t1, c1, t2, c2) ==
    LET first == IF c1.indexed
                 THEN LET s1 == indexed_side_cost(c1, t2)
                      IN  Ret(Some(s1.val), s1.ovf, FALSE)
                 ELSE Ret(None, FALSE, FALSE)
    IN  IF c2.indexed
        THEN LET s2 == indexed_side_cost(c2, t1)
             IN  Ret(IF first.val = None THEN Some(s2.val)
                     ELSE Some(cmp_min(unwrap(first.val), s2.val)),
                     first.ovf \/ s2.ovf, FALSE)
        ELSE first

(* br / memory_size is the u32 quotient: the f32 cast and ceil() that      *)
(* follow act on a whole number.  With memory_size = 0 the division        *)
(* panics before anything else is computed.                                *)
sorting_cost(br, m) ==
    IF m = 0 THEN Ret(<<0, 0>>, FALSE, TRUE)
    ELSE LET tmp == br \div m
             passes == log_ceil_u32(tmp, m - 1)
             twice == u32_mul(U32(2), U32(br))
             prod == u32_mul(twice.val, passes)
         IN  Ret(prod.val, twice.ovf \/ prod.ovf, FALSE)

(* Mutant of merge_join_cost: the final merge scan, + table1.br +          *)
(* table2.br, is left out.                                                 *)
merge_join_cost_without_scan(t1, c1, t2, c2, m) ==
    LET sort1 == IF t1.sorted_column.name # c1.name
                 THEN sorting_cost(t1.br, m) ELSE Ret(<<0, 0>>, FALSE, FALSE)
        sort2 == IF t2.sorted_column.name # c2.name
                 THEN sorting_cost(t2.br, m) ELSE Ret(<<0, 0>>, FALSE, FALSE)
        cost_to_sort == u32_add(sort1.val, sort2.val)
    IN  Ret(cost_to_sort.val, sort1.ovf \/ sort2.ovf \/ cost_to_sort.ovf,
            sort1.div0 \/ sort2.div0)

merge_join_cost(t1, c1, t2, c2, m) ==
    LET sort1 == IF t1.sorted_column.name # c1.name
                 THEN sorting_cost(t1.br, m) ELSE Ret(<<0, 0>>, FALSE, FALSE)
        sort2 == IF t2.sorted_column.name # c2.name
                 THEN sorting_cost(t2.br, m) ELSE Ret(<<0, 0>>, FALSE, FALSE)
        cost_to_sort == u32_add(sort1.val, sort2.val)
        with1 == u32_add(cost_to_sort.val, U32(t1.br))
        with2 == u32_add(with1.val, U32(t2.br))
    IN  Ret(with2.val,
            sort1.ovf \/ sort2.ovf \/ cost_to_sort.ovf \/ with1.ovf \/ with2.ovf,
            sort1.div0 \/ sort2.div0)

(* cmp::min_by_key returns its first argument on a tie.  The division is   *)
(* reached only when memory_size * memory_size > smaller.br, which a zero  *)
(* memory_size never satisfies.                                            *)
hash_join_cost(t1, t2, m) ==
    LET smaller == IF t2.br < t1.br THEN t2 ELSE t1
        square == u32_mul(U32(m), U32(m))
    IN  IF u32_lt(U32(smaller.br), square.val)
        THEN LET nh == u32_add(U32(smaller.br \div m), U32(1))
                 sum == u32_add(U32(t1.br), U32(t2.br))
                 thrice == u32_mul(U32(3), sum.val)
                 total == u32_add(thrice.val, nh.val)
             IN  Ret(Some(total.val),
                     square.ovf \/ nh.ovf \/ sum.ovf \/ thrice.ovf \/ total.ovf,
                     FALSE)
        ELSE Ret(None, square.ovf, FALSE)

(* What the caller sees: a panic, or the returned value.                   *)
panics(r, checks) == r.div0 \/ (r.ovf /\ checks)

----------------------------------------------------------------------------
(* The schema and the inputs of the model.                                 *)

Column(name, indexed, total_values) ==
    [name |-> name, indexed |-> indexed, total_values |-> total_values]

Table(name, columns, sorted_column, nr, br) ==
    [name |-> name, columns |-> columns, sorted_column |-> sorted_column,
     nr |-> nr, br |-> br]

DefaultMemory == 10000

(* Every table has a column "x" and a column "id"; it is sorted on one of  *)
(* them.  Requests name the tables "A", "B" or the absent "Z", and the     *)
(* columns "id" or the absent "q".                                         *)
BrMain == (1 .. MaxMainBr) \cup {20, 65536}
MemMain == {2, 5, DefaultMemory}
TableNames == {"A", "B", "Z"}
ColumnNames == {"id", "q"}

MainTables(name) ==
    { Table(name, <<Column("x", FALSE, 1), Column("id", ix, 5)>>,
            Column(sc, FALSE, 1), 4, br) :
        ix \in BOOLEAN, sc \in {"id", "x"}, br \in BrMain }

Schemas == { <<a, b>> : a \in MainTables("A"), b \in MainTables("B") }

NoCall == [fn |-> "none"]

----------------------------------------------------------------------------
(* main.                                                                   *)

Init ==
    /\ pc = "read_user_input"
    /\ overflow_checks \in BOOLEAN
    /\ memory_size \in MemMain
    /\ data \in Schemas
    /\ names = None
    /\ table1 = None /\ table2 = None
    /\ column1 = None /\ column2 = None
    /\ best_method = ""
    /\ best_cost = <<0, 0>>
    /\ diag = ""
    /\ call = NoCall

panic(msg) == pc' = "panicked" /\ diag' = msg

(* main.rs:172.  A line of the shape t1.c1 = t2.c2.                        *)
read_user_input ==
    /\ pc = "read_user_input"
    /\ \E t1 \in TableNames, c1 \in ColumnNames,
          t2 \in TableNames, c2 \in ColumnNames :
          names' = [table1 |-> t1, column1 |-> c1, table2 |-> t2, column2 |-> c2]
    /\ pc' = "lookup_tables"
    /\ UNCHANGED <<overflow_checks, memory_size, data, table1, table2,
                   column1, column2, best_method, best_cost, diag, call>>

(* main.rs:180-186: each table sets table1 if it has the first name, else  *)
(* table2 if it has the second.                                            *)
RECURSIVE tables_loop(_, _, _, _)
tables_loop(tables, i, n, found) ==
    IF i > Len(tables) THEN found
    ELSE tables_loop(tables, i + 1, n,
            IF tables[i].name = n.table1
            THEN <<Some(tables[i]), found[2]>>
            ELSE IF tables[i].name = n.table2
            THEN <<found[1], Some(tables[i])>>
            ELSE found)

lookup_tables ==
    /\ pc = "lookup_tables"
    /\ LET found == tables_loop(data, 1, names, <<None, None>>)
       IN  table1' = found[1] /\ table2' = found[2]
    /\ pc' = "lookup_column1"
    /\ UNCHANGED <<overflow_checks, memory_size, data, names,
                   column1, column2, best_method, best_cost, diag, call>>

(* main.rs:191-197: the last column of that name.                          *)
RECURSIVE columns_loop(_, _, _, _)
columns_loop(columns, i, name, ret_val) ==
    IF i > Len(columns) THEN ret_val
    ELSE columns_loop(columns, i + 1, name,
            IF columns[i].name = name THEN Some(columns[i]) ELSE ret_val)

lookup_column1 ==
    /\ pc = "lookup_column1"
    /\ IF table1 = None
       THEN panic("Table not found") /\ UNCHANGED column1
       ELSE /\ column1' = columns_loop(unwrap(table1).columns, 1, names.column1, None)
            /\ pc' = "lookup_column2"
            /\ UNCHANGED diag
    /\ UNCHANGED <<overflow_checks, memory_size, data, names, table1, table2,
                   column2, best_method, best_cost, call>>

lookup_column2 ==
    /\ pc = "lookup_column2"
    /\ IF table2 = None
       THEN panic("Table not found") /\ UNCHANGED column2
       ELSE /\ column2' = columns_loop(unwrap(table2).columns, 1, names.column2, None)
            /\ pc' = "check_columns"
            /\ UNCHANGED diag
    /\ UNCHANGED <<overflow_checks, memory_size, data, names, table1, table2,
                   column1, best_method, best_cost, call>>

(* main.rs:213-218.                                                        *)
check_columns ==
    /\ pc = "check_columns"
    /\ IF column1 = None \/ column2 = None
       THEN panic("Column not found")
       ELSE pc' = "block_nested" /\ UNCHANGED diag
    /\ UNCHANGED <<overflow_checks, memory_size, data, names, table1, table2,
                   column1, column2, best_method, best_cost, call>>

(* A step of the selector: the cost function panicked, or the step's       *)
(* assignments to best_method and best_cost are made.                      *)
select(r, next, method, cost) ==
    /\ IF panics(r, overflow_checks)
       THEN /\ panic(IF r.div0 THEN "divide by zero" ELSE "overflow")
            /\ UNCHANGED <<best_method, best_cost>>
       ELSE /\ pc' = next
            /\ best_method' = method
            /\ best_cost' = cost
            /\ UNCHANGED diag
    /\ UNCHANGED <<overflow_checks, memory_size, data, names, table1, table2,
                   column1, column2, call>>

(* main.rs:224-225.                                                        *)
select_block_nested ==
    /\ pc = "block_nested"
    /\ LET r == block_nested_join_cost(unwrap(table1), unwrap(table2), memory_size)
       IN  select(r, "indexed", "Block Nested Join", r.val)

(* Mutant of select_indexed: an equal cost replaces the current best.      *)
select_indexed_on_ties ==
    /\ pc = "indexed"
    /\ LET r == indexed_join_cost(unwrap(table1), unwrap(column1),
                                  unwrap(table2), unwrap(column2))
       IN  IF r.val = None
           THEN select(r, "merge", best_method, best_cost)
           ELSE select(r, "merge",
                       IF ~u32_lt(best_cost, unwrap(r.val))
                       THEN "Indexed Join" ELSE best_method,
                       cmp_min(best_cost, unwrap(r.val)))

(* main.rs:226-234.                                                        *)
select_indexed ==
    /\ pc = "indexed"
    /\ LET r == indexed_join_cost(unwrap(table1), unwrap(column1),
                                  unwrap(table2), unwrap(column2))
       IN  IF r.val = None
           THEN select(r, "merge", best_method, best_cost)
           ELSE select(r, "merge",
                       IF u32_lt(unwrap(r.val), best_cost)
                       THEN "Indexed Join" ELSE best_method,
                       cmp_min(best_cost, unwrap(r.val)))

(* Mutant of select_merge: the method name is replaced, the cost is not.   *)
select_merge_keeps_cost ==
    /\ pc = "merge"
    /\ LET r == merge_join_cost(unwrap(table1), unwrap(column1),
                                unwrap(table2), unwrap(column2), memory_size)
       IN  IF u32_lt(r.val, best_cost)
           THEN select(r, "hash", "Merge Join", best_cost)
           ELSE select(r, "hash", best_method, best_cost)

(* main.rs:236-240.                                                        *)
select_merge ==
    /\ pc = "merge"
    /\ LET r == merge_join_cost(unwrap(table1), unwrap(column1),
                                unwrap(table2), unwrap(column2), memory_size)
       IN  IF u32_lt(r.val, best_cost)
           THEN select(r, "hash", "Merge Join", r.val)
           ELSE select(r, "hash", best_method, best_cost)

(* main.rs:241-249.                                                        *)
select_hash ==
    /\ pc = "hash"
    /\ LET r == hash_join_cost(unwrap(table1), unwrap(table2), memory_size)
       IN  IF r.val = None
           THEN select(r, "report", best_method, best_cost)
           ELSE select(r, "report",
                       IF u32_lt(unwrap(r.val), best_cost)
                       THEN "Hash Join" ELSE best_method,
                       cmp_min(best_cost, unwrap(r.val)))

(* main.rs:251-254.                                                        *)
report ==
    /\ pc = "report"
    /\ pc' = "done"
    /\ UNCHANGED <<overflow_checks, memory_size, data, names, table1, table2,
                   column1, column2, best_method, best_cost, diag, call>>

Next ==
    \/ read_user_input
    \/ lookup_tables
    \/ lookup_column1
    \/ lookup_column2
    \/ check_columns
    \/ select_block_nested
    \/ select_indexed
    \/ select_merge
    \/ select_hash
    \/ report

Spec == Init /\ [][Next]_vars

----------------------------------------------------------------------------
(* The cost functions on their own: one call, on arguments drawn from      *)
(* bounded sets that hold the small cases, the scenarios of the            *)
(* specification and statistics large enough for u32 arithmetic to matter. *)

BrVals == (0 .. MaxBr) \cup {15, 20, 50, 100, 65536}
MemVals == (0 .. MaxMem) \cup {10, 65536}
NrVals == {0, 500, 2000000000}
TvVals == (0 .. MaxTv) \cup {26}

CostColumn(indexed, total_values) == Column("id", indexed, total_values)

CostTable(sorted_name, nr, br) ==
    Table("T", <<>>, Column(sorted_name, FALSE, 0), nr, br)

Called(fn, args, r) ==
    [fn |-> fn, args |-> args, ret |-> r, panicked |-> panics(r, overflow_checks)]

CostInit ==
    /\ pc = "cost"
    /\ overflow_checks \in BOOLEAN
    /\ memory_size = DefaultMemory
    /\ data = <<>>
    /\ names = None
    /\ table1 = None /\ table2 = None
    /\ column1 = None /\ column2 = None
    /\ best_method = ""
    /\ best_cost = <<0, 0>>
    /\ diag = ""
    /\ call = NoCall

returned(c) ==
    /\ call' = c
    /\ pc' = "called"
    /\ UNCHANGED <<overflow_checks, memory_size, data, names, table1, table2,
                   column1, column2, best_method, best_cost, diag>>

call_height_of_index_tree ==
    /\ pc = "cost"
    /\ \E k \in TvVals :
        returned(Called("height_of_index_tree", <<FanOut, k>>,
                        Ret(height_of_index_tree(FanOut, k), FALSE, FALSE)))

call_block_nested_join_cost ==
    /\ pc = "cost"
    /\ \E b1 \in BrVals, b2 \in BrVals, m \in MemVals :
        LET t1 == CostTable("id", 0, b1)
            t2 == CostTable("id", 0, b2)
        IN  returned(Called("block_nested_join_cost", <<t1, t2, m>>,
                            block_nested_join_cost(t1, t2, m)))

call_indexed_join_cost ==
    /\ pc = "cost"
    /\ \E n1 \in NrVals, n2 \in NrVals, b1 \in {1, 100}, b2 \in {1, 50},
       i1 \in BOOLEAN, i2 \in BOOLEAN, k1 \in TvVals, k2 \in TvVals :
        LET t1 == CostTable("id", n1, b1)
            t2 == CostTable("id", n2, b2)
            c1 == CostColumn(i1, k1)
            c2 == CostColumn(i2, k2)
        IN  returned(Called("indexed_join_cost", <<t1, c1, t2, c2>>,
                            indexed_join_cost(t1, c1, t2, c2)))

call_sorting_cost ==
    /\ pc = "cost"
    /\ \E b \in BrVals, m \in MemVals :
        returned(Called("sorting_cost", <<b, m>>, sorting_cost(b, m)))

call_merge_join_cost ==
    /\ pc = "cost"
    /\ \E b1 \in BrVals, b2 \in BrVals, m \in MemVals,
       s1 \in {"id", "x"}, s2 \in {"id", "x"} :
        LET t1 == CostTable(s1, 0, b1)
            t2 == CostTable(s2, 0, b2)
            c1 == CostColumn(FALSE, 1)
            c2 == CostColumn(FALSE, 1)
        IN  returned(Called("merge_join_cost", <<t1, c1, t2, c2, m>>,
                            merge_join_cost(t1, c1, t2, c2, m)))

call_hash_join_cost ==
    /\ pc = "cost"
    /\ \E b1 \in BrVals, b2 \in BrVals, m \in MemVals :
        LET t1 == CostTable("id", 0, b1)
            t2 == CostTable("id", 0, b2)
        IN  returned(Called("hash_join_cost", <<t1, t2, m>>,
                            hash_join_cost(t1, t2, m)))

CostNext ==
    \/ call_height_of_index_tree
    \/ call_block_nested_join_cost
    \/ call_indexed_join_cost
    \/ call_sorting_cost
    \/ call_merge_join_cost
    \/ call_hash_join_cost

CostSpec == CostInit /\ [][CostNext]_vars

----------------------------------------------------------------------------
(* The claims about main (checked under Spec).                             *)

MethodNames ==
    <<"Block Nested Join", "Indexed Join", "Merge Join", "Hash Join">>

(* The four cost-model outputs for the resolved request, in the selector's *)
(* evaluation order, each as an Option.                                    *)
Outputs ==
    LET t1 == unwrap(table1)
        t2 == unwrap(table2)
        c1 == unwrap(column1)
        c2 == unwrap(column2)
    IN  <<block_nested_join_cost(t1, t2, memory_size),
          indexed_join_cost(t1, c1, t2, c2),
          merge_join_cost(t1, c1, t2, c2, memory_size),
          hash_join_cost(t1, t2, memory_size)>>

Candidates ==
    <<Some(Outputs[1].val), Outputs[2].val, Some(Outputs[3].val), Outputs[4].val>>

Applicable == { i \in 1 .. 4 : is_some(Candidates[i]) }

MinApplicable ==
    LET costs == { unwrap(Candidates[i]) : i \in Applicable }
    IN  CHOOSE c \in costs : \A d \in costs : ~u32_lt(d, c)

FirstMin ==
    CHOOSE i \in Applicable :
        /\ unwrap(Candidates[i]) = MinApplicable
        /\ \A j \in Applicable : j < i => unwrap(Candidates[j]) # MinApplicable

(* C1: the reported cost is the minimum of the costs of the applicable     *)
(* methods, and the reported method is a method whose own cost is the      *)
(* reported cost.                                                          *)
C1_ReportedIsMinimum ==
    pc = "done" =>
        /\ best_cost = MinApplicable
        /\ \E i \in Applicable :
              MethodNames[i] = best_method /\ unwrap(Candidates[i]) = best_cost

(* C1 witness: a pair is reported for a request on which all four methods  *)
(* are applicable and Merge Join, third in the order, is strictly cheapest *)
(* of the first three.                                                     *)
C1_Witness ==
    /\ pc = "done"
    /\ Applicable = 1 .. 4
    /\ best_method = "Merge Join"
    /\ u32_lt(best_cost, unwrap(Candidates[2]))

(* C2: the reported method is the first method, in the order Block Nested  *)
(* Join, Indexed Join, Merge Join, Hash Join, whose cost equals the        *)
(* minimum applicable cost: a tie goes to the earlier method.              *)
C2_FirstMinimumWins ==
    pc = "done" => best_method = MethodNames[FirstMin]

(* C2 witness: indexed-join cost equals block-nested-loop cost, both are   *)
(* the minimum, and a pair is reported.                                    *)
C2_Witness ==
    /\ pc = "done"
    /\ Candidates[2] = Candidates[1]
    /\ MinApplicable = unwrap(Candidates[1])

SchemaNames == { data[i].name : i \in 1 .. Len(data) }

(* Both table references have been examined: the run panicked, or it went  *)
(* past the second one.                                                    *)
TablesDecided ==
    pc \notin {"read_user_input", "lookup_tables", "lookup_column1",
               "lookup_column2"}

(* C9: the run aborts with "Table not found" exactly when one of the two   *)
(* requested table names is not the name of a table of the schema (so a    *)
(* request naming the same existing table twice goes on to column lookup). *)
C9_TableNotFoundIffAbsent ==
    TablesDecided =>
        ((diag = "Table not found")
            <=> (names.table1 \notin SchemaNames \/ names.table2 \notin SchemaNames))

NoOverflow == \A i \in 1 .. 4 : ~Outputs[i].ovf /\ ~Outputs[i].div0

SmallerFits ==
    /\ unwrap(table1).br >= 1 /\ unwrap(table2).br >= 1
    /\ cmp_min_nat(unwrap(table1).br, unwrap(table2).br) < memory_size

(* C10: when the smaller table fits in memory (and br >= 1, and no u32     *)
(* operator overflowed), block-nested-loop cost is T1.br + T2.br, merge    *)
(* cost is at least that, hash cost at least 3 * (T1.br + T2.br) + 1, and  *)
(* the reported method is Block Nested Join or Indexed Join with a         *)
(* reported cost of at most T1.br + T2.br.                                 *)
C10_FitsNeverMergeOrHash ==
    (pc = "done" /\ SmallerFits /\ NoOverflow) =>
        LET sum == U32(unwrap(table1).br + unwrap(table2).br)
            least_hash == U32(3 * (unwrap(table1).br + unwrap(table2).br) + 1)
        IN  /\ Candidates[1] = Some(sum)
            /\ ~u32_lt(unwrap(Candidates[3]), sum)
            /\ is_some(Candidates[4]) => ~u32_lt(unwrap(Candidates[4]), least_hash)
            /\ best_method \in {"Block Nested Join", "Indexed Join"}
            /\ ~u32_lt(sum, best_cost)

(* C10 witness: the smaller table fits, nothing overflowed, a table needed *)
(* sorting, hash join was applicable, and the indexed join was reported.   *)
C10_Witness ==
    /\ pc = "done" /\ SmallerFits /\ NoOverflow
    /\ unwrap(table1).sorted_column.name # unwrap(column1).name
    /\ is_some(Candidates[4])
    /\ best_method = "Indexed Join"

----------------------------------------------------------------------------
(* The claims about the cost functions (checked under CostSpec).  The      *)
(* right-hand sides are the formulas of the specification over the         *)
(* integers.                                                               *)

CeilDiv(a, b) == (a + b - 1) \div b

(* The least p with base^p >= x, for base >= 2 and x >= 1.                 *)
CeilLog(base, x) ==
    CHOOSE p \in 0 .. 31 : base ^ p >= x /\ (p = 0 \/ base ^ (p - 1) < x)

(* m * m > b over the integers, for b below 2^31.                          *)
SquareExceeds(m, b) == m > 46340 \/ m * m > b

SortCostOf(b, m) == 2 * b * CeilLog(m - 1, CeilDiv(b, m))

IsCall(fn) == pc = "called" /\ call.fn = fn

(* C3: for B >= 1 and M >= 3, sorting_cost(B, M) is                        *)
(* 2 * B * ceil(log_{M-1}(ceil(B / M))), and merge_join_cost is            *)
(* T1.br + T2.br plus that sort cost for each table whose sorted column is *)
(* not the join column.                                                    *)
C3_SortAndMergeCost ==
    /\ (IsCall("sorting_cost") /\ call.args[1] >= 1 /\ call.args[2] >= 3) =>
          /\ ~call.panicked
          /\ call.ret.val = U32(SortCostOf(call.args[1], call.args[2]))
    /\ (IsCall("merge_join_cost") /\ call.args[1].br >= 1
            /\ call.args[3].br >= 1 /\ call.args[5] >= 3) =>
          LET t1 == call.args[1]
              t2 == call.args[3]
              m == call.args[5]
              sort1 == IF t1.sorted_column.name # call.args[2].name
                       THEN SortCostOf(t1.br, m) ELSE 0
              sort2 == IF t2.sorted_column.name # call.args[4].name
                       THEN SortCostOf(t2.br, m) ELSE 0
          IN  /\ ~call.panicked
              /\ call.ret.val = U32(t1.br + t2.br + sort1 + sort2)

(* C4: for M >= 1 with M * M > S.br, S the table of smaller br,            *)
(* hash_join_cost returns Some(3 * (T1.br + T2.br) + ceil(S.br / M) + 1).  *)
C4_HashCostValue ==
    LET t1 == call.args[1]
        t2 == call.args[2]
        m == call.args[3]
        s == cmp_min_nat(t1.br, t2.br)
    IN  (IsCall("hash_join_cost") /\ m >= 1 /\ SquareExceeds(m, s)) =>
            /\ ~call.panicked
            /\ call.ret.val = Some(U32(3 * (t1.br + t2.br) + CeilDiv(s, m) + 1))

(* The value of an integer expression built from + and * on naturals: its  *)
(* low 32 bits and whether it exceeds u32::MAX, in which case no u32 that  *)
(* a function returns equals it.                                           *)
Returns(v) == ~call.panicked /\ ~v.ovf /\ call.ret.val = v.val

ReturnsSome(v) == ~call.panicked /\ ~v.ovf /\ call.ret.val = Some(v.val)

Plus(v, w) ==
    LET r == u32_add(v.val, w.val)
    IN  [val |-> r.val, ovf |-> v.ovf \/ w.ovf \/ r.ovf]

Times(v, w) ==
    LET r == u32_mul(v.val, w.val)
    IN  [val |-> r.val, ovf |-> v.ovf \/ w.ovf \/ r.ovf]

Nat32(n) == [val |-> U32(n), ovf |-> FALSE]

(* C5: for M >= 1 and s = min(T1.br, T2.br), block_nested_join_cost        *)
(* returns T1.br + T2.br when s < M and s * (T1.br + T2.br - s + 1) when   *)
(* s >= M, and the same with T1 and T2 swapped.                            *)
C5_BlockNestedCost ==
    LET t1 == call.args[1]
        t2 == call.args[2]
        m == call.args[3]
        s == cmp_min_nat(t1.br, t2.br)
        larger == t1.br + t2.br - s
    IN  (IsCall("block_nested_join_cost") /\ m >= 1) =>
            /\ IF s < m
               THEN Returns(Plus(Nat32(t1.br), Nat32(t2.br)))
               ELSE Returns(Times(Nat32(s), Nat32(larger + 1)))
            /\ block_nested_join_cost(t2, t1, m) = call.ret

(* other.nr * h(column) + other.br, h the index-tree height for fan-out 10. *)
SideCostOf(column, other) ==
    Plus(Times(Nat32(other.nr),
               [val |-> height_of_index_tree(FanOut, column.total_values),
                ovf |-> FALSE]),
         Nat32(other.br))

(* C6: indexed_join_cost returns None exactly when neither column is       *)
(* indexed; T2.nr * h(C1) + T2.br when only C1 is; T1.nr * h(C2) + T1.br   *)
(* when only C2 is; the smaller of the two when both are.                  *)
C6_IndexedCost ==
    LET t1 == call.args[1]
        c1 == call.args[2]
        t2 == call.args[3]
        c2 == call.args[4]
        v1 == SideCostOf(c1, t2)
        v2 == SideCostOf(c2, t1)
    IN  IsCall("indexed_join_cost") =>
            /\ (call.ret.val = None) <=> (~c1.indexed /\ ~c2.indexed)
            /\ (c1.indexed /\ ~c2.indexed) => ReturnsSome(v1)
            /\ (~c1.indexed /\ c2.indexed) => ReturnsSome(v2)
            /\ (c1.indexed /\ c2.indexed) =>
                  /\ ~v1.ovf /\ ~v2.ovf
                  /\ ReturnsSome(IF u32_lt(v2.val, v1.val) THEN v2 ELSE v1)

(* C7: for every u32 memory size M, hash_join_cost returns None exactly    *)
(* when M * M <= min(T1.br, T2.br) over the integers, and Some cost in     *)
(* every other case.                                                       *)
C7_HashApplicability ==
    LET s == cmp_min_nat(call.args[1].br, call.args[2].br)
    IN  IsCall("hash_join_cost") =>
            /\ ~call.panicked
            /\ (call.ret.val = None) <=> ~SquareExceeds(call.args[3], s)

(* The memory size a call was made with (indexed_join_cost takes none: any *)
(* does), and its block counts.                                            *)
CallMemory ==
    IF call.fn = "sorting_cost" THEN call.args[2]
    ELSE IF call.fn = "merge_join_cost" THEN call.args[5]
    ELSE IF call.fn = "indexed_join_cost" THEN DefaultMemory
    ELSE call.args[3]

(* The call takes a logarithm to base memory_size - 1 = 1.                 *)
LogToBaseOne ==
    /\ CallMemory = 2
    /\ \/ call.fn = "sorting_cost"
       \/ /\ call.fn = "merge_join_cost"
          /\ \/ call.args[1].sorted_column.name # call.args[2].name
             \/ call.args[3].sorted_column.name # call.args[4].name

CallBlocks ==
    IF call.fn = "sorting_cost" THEN {call.args[1]}
    ELSE IF call.fn \in {"merge_join_cost", "indexed_join_cost"}
    THEN {call.args[1].br, call.args[3].br}
    ELSE {call.args[1].br, call.args[2].br}

(* C8: on tables with br >= 1 and a memory size M >= 2 no cost function    *)
(* reaches an arithmetic fault: no u32 operator overflows, nothing is      *)
(* divided by zero, and no pass count is the infinite or undefined         *)
(* logarithm to base M - 1 = 1.                                            *)
C8_NoArithmeticFault ==
    (/\ pc = "called"
     /\ call.fn # "height_of_index_tree"
     /\ \A b \in CallBlocks : b >= 1
     /\ CallMemory >= 2) =>
        /\ ~call.ret.ovf
        /\ ~call.ret.div0
        /\ ~LogToBaseOne

==========================================================================
